---------------------------- MODULE Spec2Model ----------------------------
(***************************************************************************)
(* The advocates page (component Home): two lists held in React state, a   *)
(* search term, one fetch issued on mount, an onChange handler that        *)
(* filters the full list and an onClick handler that resets the display.   *)
(*                                                                         *)
(* JavaScript strings are sequences of one-character strings; a record     *)
(* that lacks a field is a TLA+ record without that field; a state value   *)
(* that may be undefined is tagged (Arr / Undefined).                      *)
(***************************************************************************)
EXTENDS Integers, Sequences, FiniteSets, TLC

VARIABLES
    advocates,          \* useState<Advocate[]>([])   : the Full List
    filteredAdvocates,  \* useState<Advocate[]>([])   : the Display List
    searchTerm,         \* useState<string>("")       : value of the input
    pc,                 \* position of fetchAdvocates
    response,           \* what the endpoint answered (NoResponse before)
    fetchCount,         \* number of fetch("/api/advocates") calls issued
    pageCrashed,        \* a render threw: the component tree is unmounted
    lastEvent,          \* the callback that ran last
    handlerThrew,       \* the last callback ended by an uncaught exception
    prevFilteredAdvocates \* the Display List rendered before the last callback

vars == <<advocates, filteredAdvocates, searchTerm, pc, response, fetchCount,
          pageCrashed, lastEvent, handlerThrew, prevFilteredAdvocates>>

---------------------------------------------------------------------------
(* Bounds of the model *)

MaxRecords == 2     \* longest list the endpoint returns
MaxTermLen == 2     \* longest string typed into the input

---------------------------------------------------------------------------
(* Strings *)

UpperLetters == <<"A","B","C","D","E","F","G","H","I","J","K","L","M",
                  "N","O","P","Q","R","S","T","U","V","W","X","Y","Z">>
LowerLetters == <<"a","b","c","d","e","f","g","h","i","j","k","l","m",
                  "n","o","p","q","r","s","t","u","v","w","x","y","z">>
Digits == <<"0","1","2","3","4","5","6","7","8","9">>

Letters == 1..Len(UpperLetters)

Chars == {UpperLetters[i] : i \in Letters} \cup {LowerLetters[i] : i \in Letters}
         \cup {Digits[i] : i \in 1..Len(Digits)} \cup {" "}

IsUpper(c) == \E i \in Letters : UpperLetters[i] = c

\* the lower-case mapping of one character: an upper-case letter maps to its
\* lower-case letter, every other character to itself
LowerChar ==
    [c \in Chars |->
        IF IsUpper(c) THEN LowerLetters[CHOOSE k \in Letters : UpperLetters[k] = c]
        ELSE c]

\* String.prototype.toLowerCase
toLowerCase(s) == [i \in 1..Len(s) |-> LowerChar[s[i]]]

\* String.prototype.includes: needle occurs in s as a contiguous substring
includes(s, needle) ==
    \E i \in 1..(Len(s) - Len(needle) + 1) :
        SubSeq(s, i, i + Len(needle) - 1) = needle

\* Number.prototype.toString for a non-negative integer: its decimal digits
RECURSIVE toString(_)
toString(n) ==
    IF n < 10 THEN <<Digits[n + 1]>>
    ELSE toString(n \div 10) \o <<Digits[(n % 10) + 1]>>

---------------------------------------------------------------------------
(* Values of the state and of the response *)

Undefined == [type |-> "undefined"]
Arr(items) == [type |-> "array", items |-> items]
IsArr(v) == v.type = "array"

Has(advocate, key) == key \in DOMAIN advocate

\* Advocate: the fields the type declares for every record
WellFormed(advocate) ==
    /\ Has(advocate, "firstName") /\ Has(advocate, "lastName")
    /\ Has(advocate, "city") /\ Has(advocate, "degree")
    /\ Has(advocate, "specialties") /\ Has(advocate, "yearsOfExperience")

AllWellFormed(list) == \A i \in 1..Len(list) : WellFormed(list[i])

\* Sample records the endpoint may return.  The first three carry every
\* field; the last one lacks a field the filter reads.
Advocate1 == [firstName |-> <<"A","b">>, lastName |-> <<"B","a">>,
              city |-> <<"B">>, degree |-> <<"b">>,
              specialties |-> << <<"a">>, <<"A">> >>,
              yearsOfExperience |-> 15, phoneNumber |-> 55]
Advocate2 == [firstName |-> <<"A">>, lastName |-> <<"b">>,
              city |-> <<"a"," ","b">>, degree |-> <<"A","A">>,
              specialties |-> << <<"b","A">> >>,
              yearsOfExperience |-> 5, phoneNumber |-> 5]
Advocate3 == [firstName |-> <<"b">>, lastName |-> <<"b">>,
              city |-> <<"b">>, degree |-> <<"b">>,
              specialties |-> << >>,
              yearsOfExperience |-> 1, phoneNumber |-> 55]
NoCity    == [firstName |-> <<"A","b">>, lastName |-> <<"b">>,
              degree |-> <<"A">>,
              specialties |-> << <<"a">> >>,
              yearsOfExperience |-> 5, phoneNumber |-> 15]

Pool == {Advocate1, Advocate2, Advocate3, NoCity}

Lists == UNION {[1..n -> Pool] : n \in 0..MaxRecords}

Alphabet == {"a", "A", "5", " "}

Terms == UNION {[1..n -> Alphabet] : n \in 0..MaxTermLen}

\* What the request to /api/advocates can come to.
\*   rejected : fetch() rejects (network error)
\*   ok       : response.ok (2xx status)
\*   parses   : response.json() resolves (the body is JSON)
\*   hasData  : the parsed body has a data field
\*   data     : jsonResponse.data when hasData
NoResponse == [kind |-> "none"]
Rejected == [kind |-> "rejected"]
Responses ==
    {Rejected}
    \cup {[kind |-> "response", ok |-> ok, parses |-> FALSE,
           hasData |-> FALSE, data |-> <<>>] : ok \in BOOLEAN}
    \cup {[kind |-> "response", ok |-> ok, parses |-> TRUE,
           hasData |-> FALSE, data |-> <<>>] : ok \in BOOLEAN}
    \cup {[kind |-> "response", ok |-> ok, parses |-> TRUE,
           hasData |-> TRUE, data |-> d] : ok \in BOOLEAN, d \in Lists}

---------------------------------------------------------------------------
(* The filter of onChange *)

\* advocate.specialties.some((specialty) =>
\*     specialty.toLowerCase().includes(lowerSearchTerm))
some(specialties, lowerSearchTerm) ==
    \E k \in 1..Len(specialties) :
        includes(toLowerCase(specialties[k]), lowerSearchTerm)

\* predicate as it would be with the fields and the term compared as they
\* are, without toLowerCase
predicateCaseSensitive(advocate, value) ==
    IF ~Has(advocate, "firstName") THEN "throw"
    ELSE IF includes(advocate.firstName, value) THEN "true"
    ELSE IF ~Has(advocate, "lastName") THEN "throw"
    ELSE IF includes(advocate.lastName, value) THEN "true"
    ELSE IF ~Has(advocate, "city") THEN "throw"
    ELSE IF includes(advocate.city, value) THEN "true"
    ELSE IF ~Has(advocate, "degree") THEN "throw"
    ELSE IF includes(advocate.degree, value) THEN "true"
    ELSE IF ~Has(advocate, "specialties") THEN "throw"
    ELSE IF \E k \in 1..Len(advocate.specialties) :
                includes(advocate.specialties[k], value) THEN "true"
    ELSE IF ~Has(advocate, "yearsOfExperience") THEN "throw"
    ELSE IF includes(toString(advocate.yearsOfExperience), value) THEN "true"
    ELSE "false"

\* predicate as it would be with the fields lower-cased and the term not
predicateRawTerm(advocate, value) ==
    IF ~Has(advocate, "firstName") THEN "throw"
    ELSE IF includes(toLowerCase(advocate.firstName), value) THEN "true"
    ELSE IF ~Has(advocate, "lastName") THEN "throw"
    ELSE IF includes(toLowerCase(advocate.lastName), value) THEN "true"
    ELSE IF ~Has(advocate, "city") THEN "throw"
    ELSE IF includes(toLowerCase(advocate.city), value) THEN "true"
    ELSE IF ~Has(advocate, "degree") THEN "throw"
    ELSE IF includes(toLowerCase(advocate.degree), value) THEN "true"
    ELSE IF ~Has(advocate, "specialties") THEN "throw"
    ELSE IF some(advocate.specialties, value) THEN "true"
    ELSE IF ~Has(advocate, "yearsOfExperience") THEN "throw"
    ELSE IF includes(toString(advocate.yearsOfExperience), value) THEN "true"
    ELSE "false"

\* The callback given to advocates.filter: "true", "false", or "throw" when
\* a method is called on a field the record lacks.  || evaluates left to
\* right and stops at the first true operand.
predicate(advocate, value) ==
    LET lowerSearchTerm == toLowerCase(value) IN
    IF ~Has(advocate, "firstName") THEN "throw"
    ELSE IF includes(toLowerCase(advocate.firstName), lowerSearchTerm) THEN "true"
    ELSE IF ~Has(advocate, "lastName") THEN "throw"
    ELSE IF includes(toLowerCase(advocate.lastName), lowerSearchTerm) THEN "true"
    ELSE IF ~Has(advocate, "city") THEN "throw"
    ELSE IF includes(toLowerCase(advocate.city), lowerSearchTerm) THEN "true"
    ELSE IF ~Has(advocate, "degree") THEN "throw"
    ELSE IF includes(toLowerCase(advocate.degree), lowerSearchTerm) THEN "true"
    ELSE IF ~Has(advocate, "specialties") THEN "throw"
    ELSE IF some(advocate.specialties, lowerSearchTerm) THEN "true"
    ELSE IF ~Has(advocate, "yearsOfExperience") THEN "throw"
    ELSE IF includes(toString(advocate.yearsOfExperience), value) THEN "true"
    ELSE "false"

\* filterFrom as it would be if accepted elements were put in front
RECURSIVE filterFromPrepending(_, _, _, _)
filterFromPrepending(list, value, i, acc) ==
    IF i > Len(list) THEN acc
    ELSE filterFromPrepending(list, value, i + 1,
                    IF predicate(list[i], value) = "true"
                    THEN <<list[i]>> \o acc ELSE acc)

\* Array.prototype.filter: visits the elements in index order and appends
\* those the callback accepts.
RECURSIVE filterFrom(_, _, _, _)
filterFrom(list, value, i, acc) ==
    IF i > Len(list) THEN acc
    ELSE filterFrom(list, value, i + 1,
                    IF predicate(list[i], value) = "true"
                    THEN Append(acc, list[i]) ELSE acc)

\* filter as it would be if an empty term showed no record
filterEmptyTermShowsNone(list, value) ==
    IF value = <<>> THEN <<>> ELSE filterFrom(list, value, 1, <<>>)

filter(list, value) == filterFrom(list, value, 1, <<>>)

\* the callback throws on some element: the exception leaves filter
filterThrows(list, value) ==
    \E i \in 1..Len(list) : predicate(list[i], value) = "throw"

---------------------------------------------------------------------------
(* The component *)

Init ==
    /\ advocates = Arr(<<>>)
    /\ filteredAdvocates = Arr(<<>>)
    /\ searchTerm = <<>>
    /\ pc = "mount"
    /\ response = NoResponse
    /\ fetchCount = 0
    /\ pageCrashed = FALSE
    /\ lastEvent = "none"
    /\ handlerThrew = FALSE
    /\ prevFilteredAdvocates = Arr(<<>>)

\* useEffect(() => { ... fetchAdvocates(); }, []): runs once after mount and
\* calls fetch("/api/advocates")
useEffect ==
    /\ pc = "mount"
    /\ pc' = "await_fetch"
    /\ fetchCount' = fetchCount + 1
    /\ UNCHANGED <<advocates, filteredAdvocates, searchTerm, response,
                   pageCrashed, lastEvent, handlerThrew, prevFilteredAdvocates>>

\* awaitFetch as it would be if a rejected fetch were issued again
awaitFetchRetries ==
    /\ pc = "await_fetch"
    /\ \E r \in Responses :
        /\ response' = r
        /\ pc' = IF r.kind = "rejected" THEN "await_fetch" ELSE "await_json"
        /\ fetchCount' = IF r.kind = "rejected" /\ fetchCount < 2
                         THEN fetchCount + 1 ELSE fetchCount
        /\ lastEvent' = IF r.kind = "rejected" THEN "fetch" ELSE lastEvent
        /\ handlerThrew' = IF r.kind = "rejected" THEN FALSE ELSE handlerThrew
        /\ prevFilteredAdvocates' =
              IF r.kind = "rejected" THEN filteredAdvocates
              ELSE prevFilteredAdvocates
    /\ UNCHANGED <<advocates, filteredAdvocates, searchTerm, pageCrashed>>

\* const response = await fetch("/api/advocates"): a rejection goes to the
\* catch block, which only logs
awaitFetch ==
    /\ pc = "await_fetch"
    /\ \E r \in Responses :
        /\ response' = r
        /\ pc' = IF r.kind = "rejected" THEN "done" ELSE "await_json"
        /\ lastEvent' = IF r.kind = "rejected" THEN "fetch" ELSE lastEvent
        /\ handlerThrew' = IF r.kind = "rejected" THEN FALSE ELSE handlerThrew
        /\ prevFilteredAdvocates' =
              IF r.kind = "rejected" THEN filteredAdvocates
              ELSE prevFilteredAdvocates
    /\ UNCHANGED <<advocates, filteredAdvocates, searchTerm, fetchCount,
                   pageCrashed>>

\* awaitJson as it would be without the call of setAdvocates
awaitJsonDisplayOnly ==
    /\ pc = "await_json"
    /\ ~pageCrashed
    /\ pc' = "done"
    /\ lastEvent' = "fetch"
    /\ handlerThrew' = FALSE
    /\ prevFilteredAdvocates' = filteredAdvocates
    /\ IF ~response.parses
       THEN UNCHANGED <<advocates, filteredAdvocates, pageCrashed>>
       ELSE LET data == IF response.hasData THEN Arr(response.data)
                        ELSE Undefined
            IN /\ UNCHANGED advocates
               /\ filteredAdvocates' = data
               /\ pageCrashed' = ~IsArr(data)
    /\ UNCHANGED <<searchTerm, response, fetchCount>>

\* const jsonResponse = await response.json();
\* setAdvocates(jsonResponse.data); setFilteredAdvocates(jsonResponse.data);
\* The next render calls filteredAdvocates.map, which throws on undefined.
awaitJson ==
    /\ pc = "await_json"
    /\ ~pageCrashed
    /\ pc' = "done"
    /\ lastEvent' = "fetch"
    /\ handlerThrew' = FALSE
    /\ prevFilteredAdvocates' = filteredAdvocates
    /\ IF ~response.parses
       THEN UNCHANGED <<advocates, filteredAdvocates, pageCrashed>>
       ELSE LET data == IF response.hasData THEN Arr(response.data)
                        ELSE Undefined
            IN /\ advocates' = data
               /\ filteredAdvocates' = data
               /\ pageCrashed' = ~IsArr(data)
    /\ UNCHANGED <<searchTerm, response, fetchCount>>

\* onChange as it would be if it filtered the list on display
onChangeFromDisplay(value) ==
    /\ pc # "mount"
    /\ ~pageCrashed
    /\ value # searchTerm
    /\ searchTerm' = value
    /\ lastEvent' = "change"
    /\ prevFilteredAdvocates' = filteredAdvocates
    /\ IF filterThrows(filteredAdvocates.items, value)
       THEN /\ handlerThrew' = TRUE
            /\ UNCHANGED filteredAdvocates
       ELSE /\ handlerThrew' = FALSE
            /\ filteredAdvocates' = Arr(filter(filteredAdvocates.items, value))
    /\ UNCHANGED <<advocates, pc, response, fetchCount, pageCrashed>>

\* onChange of the input: e.target.value = value
onChange(value) ==
    /\ pc # "mount"
    /\ ~pageCrashed
    /\ value # searchTerm
    /\ searchTerm' = value
    /\ lastEvent' = "change"
    /\ prevFilteredAdvocates' = filteredAdvocates
    /\ IF filterThrows(advocates.items, value)
       THEN /\ handlerThrew' = TRUE
            /\ UNCHANGED filteredAdvocates
       ELSE /\ handlerThrew' = FALSE
            /\ filteredAdvocates' = Arr(filter(advocates.items, value))
    /\ UNCHANGED <<advocates, pc, response, fetchCount, pageCrashed>>

\* onClick as it would be without the call of setSearchTerm
onClickKeepsTerm ==
    /\ pc # "mount"
    /\ ~pageCrashed
    /\ filteredAdvocates' = advocates
    /\ lastEvent' = "reset"
    /\ handlerThrew' = FALSE
    /\ prevFilteredAdvocates' = filteredAdvocates
    /\ UNCHANGED <<searchTerm, advocates, pc, response, fetchCount, pageCrashed>>

\* onClick of the Reset button
onClick ==
    /\ pc # "mount"
    /\ ~pageCrashed
    /\ searchTerm' = <<>>
    /\ filteredAdvocates' = advocates
    /\ lastEvent' = "reset"
    /\ handlerThrew' = FALSE
    /\ prevFilteredAdvocates' = filteredAdvocates
    /\ UNCHANGED <<advocates, pc, response, fetchCount, pageCrashed>>

Next ==
    \/ useEffect
    \/ awaitFetch
    \/ awaitJson
    \/ \E value \in Terms : onChange(value)
    \/ onClick

Spec == Init /\ [][Next]_vars

---------------------------------------------------------------------------
(* Properties *)

TypeOK ==
    /\ advocates \in {Undefined} \cup {Arr(l) : l \in Lists}
    /\ filteredAdvocates.type \in {"undefined", "array"}
    /\ searchTerm \in Terms
    /\ pc \in {"mount", "await_fetch", "await_json", "done"}
    /\ response \in Responses \cup {NoResponse}
    /\ fetchCount \in 0..1
    /\ pageCrashed \in BOOLEAN
    /\ lastEvent \in {"none", "fetch", "change", "reset"}
    /\ handlerThrew \in BOOLEAN

Member(x, list) == \E j \in 1..Len(list) : list[j] = x

\* C1: in every reachable state every record of the Display List
\* (filteredAdvocates) is a record of the Full List (advocates).
C1_DisplayWithinFull ==
    IsArr(filteredAdvocates) =>
        /\ IsArr(advocates)
        /\ \A i \in 1..Len(filteredAdvocates.items) :
              Member(filteredAdvocates.items[i], advocates.items)

\* a search has narrowed a fetched list to a non-empty proper part of it
C1_Witness ==
    /\ pc = "done" /\ lastEvent = "change" /\ ~handlerThrew
    /\ IsArr(filteredAdvocates)
    /\ Len(filteredAdvocates.items) >= 1
    /\ Len(filteredAdvocates.items) < Len(advocates.items)

\* two characters are equal up to the case of a letter
SameChar(c, d) ==
    \/ c = d
    \/ \E i \in Letters : {c, d} = {UpperLetters[i], LowerLetters[i]}

\* t occurs in field as a substring when the case of letters is ignored
ContainsIgnoringCase(field, t) ==
    \E i \in 0..(Len(field) - Len(t)) :
        \A k \in 1..Len(t) : SameChar(field[i + k], t[k])

\* the decimal string of a non-negative integer, digit by digit
NumDigits(n) == CHOOSE d \in 1..10 : (d = 1 \/ 10^(d - 1) <= n) /\ n < 10^d
Decimal(n) ==
    [k \in 1..NumDigits(n) |-> Digits[((n \div 10^(NumDigits(n) - k)) % 10) + 1]]

\* the inclusion rule as the specification words it
Matches(r, t) ==
    \/ ContainsIgnoringCase(r.firstName, t)
    \/ ContainsIgnoringCase(r.lastName, t)
    \/ ContainsIgnoringCase(r.city, t)
    \/ ContainsIgnoringCase(r.degree, t)
    \/ \E k \in 1..Len(r.specialties) : ContainsIgnoringCase(r.specialties[k], t)
    \/ ContainsIgnoringCase(Decimal(r.yearsOfExperience), t)

\* C2: after a search-input change over a list of records, a record is in
\* the Display List if and only if firstName, lastName, city, degree, one
\* element of specialties or the decimal string of yearsOfExperience
\* contains the term as a substring, case ignored; phoneNumber never counts.
C2_IncludedIffSomeFieldContains ==
    (lastEvent = "change" /\ AllWellFormed(advocates.items)) =>
        /\ ~handlerThrew
        /\ \A i \in 1..Len(advocates.items) :
              Member(advocates.items[i], filteredAdvocates.items)
                  <=> Matches(advocates.items[i], searchTerm)

\* a term with an upper-case letter keeps one record and drops another
C2_Witness ==
    /\ lastEvent = "change" /\ AllWellFormed(advocates.items)
    /\ searchTerm # toLowerCase(searchTerm)
    /\ Len(filteredAdvocates.items) >= 1
    /\ Len(filteredAdvocates.items) < Len(advocates.items)

\* a term made of white space only (the empty term included)
IsBlank(t) == \A i \in 1..Len(t) : t[i] = " "

\* C3 as claimed: a search-input change to an empty or white-space-only
\* term shows the whole Full List, in order.
C3_BlankTermReturnsAll ==
    (lastEvent = "change" /\ AllWellFormed(advocates.items) /\ IsBlank(searchTerm)) =>
        /\ ~handlerThrew
        /\ filteredAdvocates = advocates

\* C3 amended: a search-input change to the empty term shows the whole Full
\* List, in order; over an empty Full List any term shows the empty list and
\* nothing is thrown.
C3_EmptyTermReturnsAll ==
    /\ (lastEvent = "change" /\ AllWellFormed(advocates.items) /\ searchTerm = <<>>) =>
            (~handlerThrew /\ filteredAdvocates = advocates)
    /\ (lastEvent = "change" /\ advocates.items = <<>>) =>
            (~handlerThrew /\ filteredAdvocates = Arr(<<>>))

\* the input was cleared by hand after a search had narrowed a fetched list
C3_Witness ==
    /\ lastEvent = "change" /\ searchTerm = <<>>
    /\ AllWellFormed(advocates.items)
    /\ Len(advocates.items) >= 2
    /\ filteredAdvocates = advocates
    /\ Len(prevFilteredAdvocates.items) < Len(advocates.items)

RECURSIVE IsSubsequence(_, _)
IsSubsequence(s, l) ==
    IF Len(s) = 0 THEN TRUE
    ELSE IF Len(l) = 0 THEN FALSE
    ELSE IF Head(s) = Head(l) THEN IsSubsequence(Tail(s), Tail(l))
    ELSE IsSubsequence(s, Tail(l))

\* C4: the list a search-input change displays is a subsequence of the Full
\* List: only its records, none more often, in the same relative order.
C4_FilterIsSubsequence ==
    (lastEvent = "change" /\ ~handlerThrew) =>
        IsSubsequence(filteredAdvocates.items, advocates.items)

\* a non-empty term kept two different records
C4_Witness ==
    /\ lastEvent = "change" /\ ~handlerThrew
    /\ searchTerm # <<>>
    /\ Len(filteredAdvocates.items) = 2
    /\ filteredAdvocates.items[1] # filteredAdvocates.items[2]

IsLower(c) == \E i \in Letters : LowerLetters[i] = c

\* upper-casing, the counterpart of toLowerCase
UpperChar ==
    [c \in Chars |->
        IF IsLower(c) THEN UpperLetters[CHOOSE k \in Letters : LowerLetters[k] = c]
        ELSE c]
toUpperCase(s) == [i \in 1..Len(s) |-> UpperChar[s[i]]]

Alphabetic(t) == Len(t) > 0 /\ \A i \in 1..Len(t) : IsUpper(t[i]) \/ IsLower(t[i])

\* C5: for an alphabetic term the search-input change has the same outcome
\* as for the term upper-cased and for the term lower-cased.
C5_CaseInsensitive ==
    (lastEvent = "change" /\ Alphabetic(searchTerm)) =>
        LET upper == toUpperCase(searchTerm)
            lower == toLowerCase(searchTerm)
        IN /\ handlerThrew = filterThrows(advocates.items, upper)
           /\ handlerThrew = filterThrows(advocates.items, lower)
           /\ ~handlerThrew =>
                /\ filteredAdvocates.items = filter(advocates.items, upper)
                /\ filteredAdvocates.items = filter(advocates.items, lower)

\* a term of mixed case kept one record and dropped another
C5_Witness ==
    /\ lastEvent = "change" /\ ~handlerThrew
    /\ Alphabetic(searchTerm)
    /\ searchTerm # toUpperCase(searchTerm)
    /\ searchTerm # toLowerCase(searchTerm)
    /\ Len(filteredAdvocates.items) >= 1
    /\ Len(filteredAdvocates.items) < Len(advocates.items)

\* the fetch failed: network error, non-2xx status, a body that is not JSON,
\* or a JSON body without the data field
FetchFailed(r) ==
    \/ r.kind = "rejected"
    \/ r.kind = "response" /\ (~r.ok \/ ~r.parses \/ ~r.hasData)

FetchSucceeded(r) ==
    r.kind = "response" /\ r.ok /\ r.parses /\ r.hasData

\* C6 as claimed: after a failed fetch both lists are what they were before
\* it completed, the empty list, and the page has not crashed.
C6_FailedFetchKeepsLists ==
    (pc = "done" /\ FetchFailed(response)) =>
        /\ advocates = Arr(<<>>)
        /\ filteredAdvocates = Arr(<<>>)
        /\ ~pageCrashed

\* C7: once the fetch has succeeded, a click on Reset leaves the Display
\* List and the Full List equal to the fetched list and the search term
\* empty, whatever was typed before.
C7_ResetRestoresFetched ==
    (lastEvent = "reset" /\ pc = "done" /\ FetchSucceeded(response)) =>
        /\ filteredAdvocates = Arr(response.data)
        /\ advocates = Arr(response.data)
        /\ searchTerm = <<>>

\* Reset was clicked while a search had narrowed the fetched list
C7_Witness ==
    /\ lastEvent = "reset" /\ pc = "done" /\ FetchSucceeded(response)
    /\ Len(response.data) >= 2
    /\ Len(prevFilteredAdvocates.items) < Len(response.data)
    /\ filteredAdvocates = Arr(response.data)

\* the inclusion rule with a field the record lacks counted as non-matching
MatchesDefensively(r, t) ==
    \/ Has(r, "firstName") /\ ContainsIgnoringCase(r.firstName, t)
    \/ Has(r, "lastName") /\ ContainsIgnoringCase(r.lastName, t)
    \/ Has(r, "city") /\ ContainsIgnoringCase(r.city, t)
    \/ Has(r, "degree") /\ ContainsIgnoringCase(r.degree, t)
    \/ Has(r, "specialties") /\
         \E k \in 1..Len(r.specialties) : ContainsIgnoringCase(r.specialties[k], t)
    \/ Has(r, "yearsOfExperience") /\
         ContainsIgnoringCase(Decimal(r.yearsOfExperience), t)

\* C8 as claimed: a search-input change never throws, and displays the
\* records that match on the fields they have.
C8_MissingFieldIsNonMatch ==
    lastEvent = "change" =>
        /\ ~handlerThrew
        /\ \A i \in 1..Len(advocates.items) :
              Member(advocates.items[i], filteredAdvocates.items)
                  <=> MatchesDefensively(advocates.items[i], searchTerm)

\* C9: every search-input change over a list of records leaves the Full
\* List as it is and sets the Display List to the filter of the Full List by
\* the new term, whatever was on display before.
C9_ChangeRecomputesFromFull ==
    [][(lastEvent' = "change" /\ AllWellFormed(advocates.items)) =>
          /\ advocates' = advocates
          /\ ~handlerThrew'
          /\ filteredAdvocates' = Arr(filter(advocates.items, searchTerm'))]_vars

\* after a narrower search, a search brought back a record that was not on
\* display
C9_Witness ==
    /\ lastEvent = "change" /\ pc = "done" /\ ~handlerThrew
    /\ AllWellFormed(advocates.items)
    /\ searchTerm # <<>>
    /\ prevFilteredAdvocates # advocates
    /\ \E i \in 1..Len(filteredAdvocates.items) :
          ~Member(filteredAdvocates.items[i], prevFilteredAdvocates.items)

\* C10: both lists are empty until the fetch completes; when it succeeds
\* with { data: R } both lists are R, unfiltered; one fetch is issued, no
\* more.
C10_FetchSetsBothLists ==
    /\ pc # "done" => (advocates = Arr(<<>>) /\ filteredAdvocates = Arr(<<>>))
    /\ (lastEvent = "fetch" /\ FetchSucceeded(response)) =>
          (advocates = Arr(response.data) /\ filteredAdvocates = Arr(response.data))
    /\ fetchCount = (IF pc = "mount" THEN 0 ELSE 1)

\* the fetch succeeded after a term had been typed
C10_Witness ==
    /\ lastEvent = "fetch" /\ FetchSucceeded(response)
    /\ Len(response.data) >= 2
    /\ searchTerm # <<>>
    /\ filteredAdvocates = Arr(response.data)

\* C11 as claimed: in every reachable state the Display List is the filter
\* of the Full List by the term shown in the input.  Stated over the states
\* that hold a list of records carrying every field, fetched by a request
\* that succeeded, so that only the interleaving of the fetch with the
\* callbacks is in question.
C11_DisplayIsFilterOfFull ==
    (/\ IsArr(advocates)
     /\ AllWellFormed(advocates.items)
     /\ pc = "done" => FetchSucceeded(response)) =>
        filteredAdvocates = Arr(filter(advocates.items, searchTerm))

=============================================================================
